---- MODULE Spec2Model ----
(***************************************************************************)
(* Session controller of the rover control page (src/script.js): the       *)
(* globals roverIP / lastCommand / failCount / currentMode, the two        *)
(* localStorage keys, the status and signal elements, and the fetch()      *)
(* requests whose continuations are still pending.  Every handler runs to  *)
(* its next await as one atomic step (single-threaded event loop); the     *)
(* part after an await runs when the response of that request is           *)
(* delivered, in any order relative to the other pending requests.         *)
(* fetchStatus reads no program state between `await fetch` and            *)
(* `await response.json()`, so its two awaits are one delivery.  The       *)
(* elements hold "initial" until the script first writes them (their       *)
(* markup is not part of the script).                                      *)
(***************************************************************************)
EXTENDS Bags, FiniteSets, Integers, Sequences, TLC

VARIABLES
    roverIP,        \* let roverIP                       (sequence of characters)
    lastCommand,    \* let lastCommand
    failCount,      \* let failCount
    currentMode,    \* let currentMode
    localStorage,   \* [roverIP: <<>> or <<string>>, controlMode: string or NoVal]
    statusEl,       \* text of #connection-status
    signalEl,       \* text of #signal-strength
    distColor,      \* distanceValue.style.color
    inflight,       \* bag of pending fetch() continuations
    sent,           \* requests issued by the handler that ran last, in order
    alerted,        \* whether the handler that ran last called alert()
    ev,             \* the handler that ran last and its input
    hist,           \* run of consecutive operator move(d) calls in manual mode
    operatorSwitched, \* the operator called switchMode since the last emergencyStop()
    lastGo          \* go= of the /action request issued last, NoVal before the first

vars == <<roverIP, lastCommand, failCount, currentMode, localStorage, statusEl,
          signalEl, distColor, inflight, sent, alerted, ev, hist, operatorSwitched,
          lastGo>>

----------------------------------------------------------------------------
(* Bounds *)

MaxInFlight == 2     \* most requests pending at once
MaxFail == 4         \* failCount is not driven beyond this
MaxRun == 3          \* longest run of repeated move(d) calls that hist follows

(* Program constants *)

DisconnectThreshold == 3
RedBelow == 15
OrangeBelow == 35

----------------------------------------------------------------------------
(* Values *)

NoVal == "none"      \* null / undefined / absent
NoDist == -1         \* data.distance null or undefined

WhiteSpace == {" "}
\* texts the operator submits: empty, blank, padded, plain
Inputs == {<<>>, <<" ", " ">>, <<" ", "a", " ">>, <<"a">>}

DefaultIP == <<"1","9","2",".","1","6","8",".","1",".","1","0","0">>

Directions == {"stop", "forward", "backward", "left", "right"}
Modes == {"manual", "autonomous"}
ReportedModes == {NoVal, "manual", "autonomous", "idle"}   \* data.mode: any string
Distances == {NoDist, 0, 14, 15, 34, 35}   \* data.distance, around the thresholds
Speeds == {"128"}
Keys == {"Escape", "m", "ctrl+a", "w", "s", "a", "d", " ", "x"}

Rejected == {"neterr", "timeout"}          \* fetch() promise rejects
Fulfilled == {"ok", "non2xx"}              \* fetch() promise fulfils
BadBody == {"malformed", "nofield"}        \* 2xx, but json() or data.battery throws

----------------------------------------------------------------------------
(* String.prototype.trim *)

RECURSIVE TrimLeft(_)
TrimLeft(str) ==
    IF str = <<>> THEN str
    ELSE IF Head(str) \in WhiteSpace THEN TrimLeft(Tail(str)) ELSE str

RECURSIVE TrimRight(_)
TrimRight(str) ==
    IF str = <<>> THEN str
    ELSE IF str[Len(str)] \in WhiteSpace
         THEN TrimRight(SubSeq(str, 1, Len(str) - 1)) ELSE str

\* trimStart in place of trim
TrimLeftOnly(str) == TrimLeft(str)

Trim(str) == TrimRight(TrimLeft(str))

----------------------------------------------------------------------------
(* The controller's functions, over a record s of the program state *)

\* a pending continuation: the request it waits for, the mode argument of a
\* switchMode call, and the caller that awaits that call (emergencyStop or nobody)
Cont(kind, mode, caller) == [kind |-> kind, mode |-> mode, caller |-> caller]

\* fetch(`http://${roverIP}/<kind>?<arg>`): the request leaves, the caller suspends
fetch(s, kind, arg, cont) ==
    [s EXCEPT !.inflight = @ (+) SetToBag({cont}),
              !.sent = Append(@, [kind |-> kind, arg |-> arg,
                                  addr |-> s.roverIP, mode |-> s.currentMode])]

\* a success takes one failure back instead of all of them
updateConnectionStatus_Gradual(s, connected) ==
    IF connected
    THEN IF s.failCount <= 1
         THEN [s EXCEPT !.statusEl = "connected", !.failCount = 0]
         ELSE [s EXCEPT !.failCount = @ - 1]
    ELSE LET n == s.failCount + 1
         IN  IF n > DisconnectThreshold
             THEN [s EXCEPT !.failCount = n, !.statusEl = "disconnected",
                            !.signalEl = "blank"]
             ELSE [s EXCEPT !.failCount = n]

\* >= in place of >
updateConnectionStatus_Eager(s, connected) ==
    IF connected
    THEN [s EXCEPT !.statusEl = "connected", !.failCount = 0]
    ELSE LET n == s.failCount + 1
         IN  IF n >= DisconnectThreshold
             THEN [s EXCEPT !.failCount = n, !.statusEl = "disconnected",
                            !.signalEl = "blank"]
             ELSE [s EXCEPT !.failCount = n]

updateConnectionStatus(s, connected) ==
    IF connected
    THEN [s EXCEPT !.statusEl = "connected", !.failCount = 0]
    ELSE LET n == s.failCount + 1
         IN  IF n > DisconnectThreshold
             THEN [s EXCEPT !.failCount = n, !.statusEl = "disconnected",
                            !.signalEl = "blank"]
             ELSE [s EXCEPT !.failCount = n]

\* without the mode guard
move_NoGuard(s, direction) ==
    LET eff == IF s.lastCommand = direction /\ direction # "stop"
               THEN "stop" ELSE direction
    IN  fetch([s EXCEPT !.lastCommand = eff], "action", eff,
              Cont("action", NoVal, NoVal))

\* without the toggle
move_NoToggle(s, direction) ==
    IF s.currentMode # "manual" THEN s
    ELSE fetch([s EXCEPT !.lastCommand = direction], "action", direction,
               Cont("action", NoVal, NoVal))

\* lastCommand takes the direction asked for, not the one sent
move_RecordsRequested(s, direction) ==
    IF s.currentMode # "manual" THEN s
    ELSE LET eff == IF s.lastCommand = direction /\ direction # "stop"
                    THEN "stop" ELSE direction
         IN  fetch([s EXCEPT !.lastCommand = direction], "action", eff,
                   Cont("action", NoVal, NoVal))

\* move(direction) up to its await
move(s, direction) ==
    IF s.currentMode # "manual" THEN s
    ELSE LET eff == IF s.lastCommand = direction /\ direction # "stop"
                    THEN "stop" ELSE direction
         IN  fetch([s EXCEPT !.lastCommand = eff], "action", eff,
                   Cont("action", NoVal, NoVal))

\* move(direction) after its await
moveResume(s, out) ==
    IF out \in Rejected THEN updateConnectionStatus(s, FALSE)
    ELSE IF out = "ok" THEN updateConnectionStatus(s, TRUE)
    ELSE s

\* without the write to localStorage
switchMode_NoPersist(s, mode, caller) ==
    fetch([s EXCEPT !.currentMode = mode], "mode", mode, Cont("mode", mode, caller))

\* switchMode(mode) up to its await
switchMode(s, mode, caller) ==
    fetch([s EXCEPT !.currentMode = mode, !.localStorage.controlMode = mode],
          "mode", mode, Cont("mode", mode, caller))

\* a failed /mode request is sent again
switchModeResume_Retry(s, mode, out) ==
    IF out \in Rejected
    THEN fetch(s, "mode", mode, Cont("mode", mode, NoVal))
    ELSE IF mode = "manual" THEN move(s, "stop") ELSE s

\* switchMode(mode) after its await
switchModeResume(s, mode, out) ==
    IF out \in Rejected THEN s
    ELSE IF mode = "manual" THEN move(s, "stop") ELSE s

updateSpeed(s, value) == fetch(s, "speed", value, Cont("speed", NoVal, NoVal))

\* no poll while the rover shows as disconnected
fetchStatus_Backoff(s) ==
    IF s.failCount > DisconnectThreshold THEN s
    ELSE fetch(s, "status", NoVal, Cont("status", NoVal, NoVal))

\* fetchStatus() up to its awaits
fetchStatus(s) == fetch(s, "status", NoVal, Cont("status", NoVal, NoVal))

\* <= in place of < at the red threshold
distanceColor_Inclusive(s, distance) ==
    IF distance # NoDist /\ s.currentMode = "autonomous" /\ distance > 0
    THEN IF distance <= RedBelow THEN "red"
         ELSE IF distance < OrangeBelow THEN "orange" ELSE "green"
    ELSE s.distColor

\* the colour of the distance display after a poll that carries distance
distanceColor(s, distance) ==
    IF distance # NoDist /\ s.currentMode = "autonomous" /\ distance > 0
    THEN IF distance < RedBelow THEN "red"
         ELSE IF distance < OrangeBelow THEN "orange" ELSE "green"
    ELSE s.distColor

\* without the mode reconciliation
fetchStatusResume_NoSync(s, out, data) ==
    IF out \in Rejected \cup BadBody THEN updateConnectionStatus(s, FALSE)
    ELSE IF out = "ok"
    THEN updateConnectionStatus(
             [s EXCEPT !.signalEl = "shown",
                       !.distColor = distanceColor(s, data.distance)], TRUE)
    ELSE s

\* fetchStatus() after its awaits; data = [mode, distance]
fetchStatusResume(s, out, data) ==
    IF out \in Rejected \cup BadBody THEN updateConnectionStatus(s, FALSE)
    ELSE IF out = "ok"
    THEN LET s1 == [s EXCEPT !.signalEl = "shown",
                             !.distColor = distanceColor(s, data.distance)]
             s2 == IF data.mode # NoVal /\ data.mode # s1.currentMode
                   THEN switchMode(s1, data.mode, NoVal) ELSE s1
         IN  updateConnectionStatus(s2, TRUE)
    ELSE s

connectRover(s, input) ==
    LET s1 == [s EXCEPT !.roverIP = Trim(input)]
    IN  IF s1.roverIP = <<>>
        THEN [s1 EXCEPT !.alerted = TRUE]
        ELSE fetchStatus([s1 EXCEPT !.localStorage.roverIP = <<s1.roverIP>>,
                                    !.statusEl = "connecting"])

\* emergencyStop() up to its first await
emergencyStop(s) == switchMode(s, "manual", "emergencyStop")

\* emergencyStop() after `await switchMode('manual')`
emergencyStopResume(s) == move(s, "stop")

\* the keydown listener
keydown(s, key) ==
    IF key = "Escape" THEN emergencyStop(s)
    ELSE IF key = "m" THEN switchMode(s, "manual", NoVal)
    ELSE IF key = "ctrl+a" THEN switchMode(s, "autonomous", NoVal)
    ELSE IF s.currentMode # "manual" THEN s
    ELSE IF key = "w" THEN move(s, "forward")
    ELSE IF key = "s" THEN move(s, "backward")
    ELSE IF key = "a" THEN move(s, "left")
    ELSE IF key = "d" THEN move(s, "right")
    ELSE IF key = " " THEN move(s, "stop")
    ELSE s

\* the DOMContentLoaded listener, from the script's initial globals
DOMContentLoaded(ls) ==
    LET s0 == [roverIP |-> DefaultIP, lastCommand |-> "stop", failCount |-> 0,
               currentMode |-> "manual", localStorage |-> ls,
               statusEl |-> "initial", signalEl |-> "initial",
               distColor |-> "initial", inflight |-> EmptyBag,
               sent |-> <<>>, alerted |-> FALSE]
        s1 == IF ls.roverIP # <<>> /\ ls.roverIP[1] # <<>>
              THEN [s0 EXCEPT !.roverIP = ls.roverIP[1]] ELSE s0
    IN  IF ls.controlMode = "autonomous"
        THEN switchMode(s1, "autonomous", NoVal) ELSE s1

----------------------------------------------------------------------------
(* State machine *)

\* the program state as a record; sent/alerted describe one handler run
Cur == [roverIP |-> roverIP, lastCommand |-> lastCommand, failCount |-> failCount,
        currentMode |-> currentMode, localStorage |-> localStorage,
        statusEl |-> statusEl, signalEl |-> signalEl, distColor |-> distColor,
        inflight |-> inflight, sent |-> <<>>, alerted |-> FALSE]

\* Cur with the continuation r taken out of the pending ones
Resumed(r) == [Cur EXCEPT !.inflight = @ (-) SetToBag({r})]

\* a handler run: the function, its argument, and for a continuation the outcome
\* of its request, the body of a /status answer (mode, dist), the caller of
\* switchMode and failCount as it was before; for an operator's switchMode, mode
\* is currentMode as it was before; after is the observed handler run before it
Ev(op, arg) == [op |-> op, arg |-> arg, input |-> <<>>, out |-> NoVal,
                mode |-> NoVal, dist |-> NoDist, caller |-> NoVal, pre |-> 0,
                after |-> <<>>]

Quiet == Ev("quiet", NoVal)

NoHist == [d |-> NoVal, n |-> 0, first |-> NoVal, go |-> <<>>]

\* the go= values of the /action requests among reqs, in order
Went(reqs) ==
    LET act == SelectSeq(reqs, LAMBDA r : r.kind = "action")
    IN  [i \in 1..Len(act) |-> act[i].arg]

Asynchronous == {"tick", "statusResp", "actionResp", "speedResp"}

\* hist after handler e took the program to s.  A run is a series of operator
\* calls move(d), d not stop, made in manual mode with nothing in between but
\* timer ticks and responses that leave currentMode alone; hist holds d, the
\* number n of calls so far, the direction the first of them sent and the go=
\* values of the /action requests the latest of them issued.  Runs are followed
\* up to MaxRun calls.
HistNext(e, s) ==
    IF e.op = "move" /\ currentMode = "manual" /\ e.arg # "stop"
    THEN IF hist.n > 0 /\ hist.d = e.arg
         THEN IF hist.n < MaxRun
              THEN [hist EXCEPT !.n = @ + 1, !.go = Went(s.sent)] ELSE NoHist
         ELSE [d |-> e.arg, n |-> 1, first |-> s.lastCommand, go |-> Went(s.sent)]
    ELSE IF e.op \in Asynchronous /\ s.currentMode = currentMode
    THEN hist
    ELSE NoHist

\* whether handler run e is under observation by W, a set of <<op>> and <<op, out>>
Observed(e, W) == <<e.op>> \in W \/ <<e.op, e.out>> \in W

\* the distances the polls carry: all of Distances in a specification that
\* holds <<"distance">>, none in the others (distColor bears on nothing else)
PollDistances(W) == IF <<"distance">> \in W THEN Distances ELSE {NoDist}

\* the model is within its bounds
Bounded == BagCardinality(inflight) <= MaxInFlight /\ failCount <= MaxFail

\* The program moves to s by handler e.  W is the set of handlers under
\* observation: ev, sent and alerted record the last handler only when W observes
\* it, hist is kept only when W holds <<"hist">>, operatorSwitched only when W
\* observes emergencyStop, lastGo only when W holds <<"lastGo">>, ev.after only
\* when W holds <<"after">>, ev.pre only when W holds <<"pre">>, and ev.mode only
\* when W holds <<"mode">>.
Install(s, e, W) ==
    /\ BagCardinality(s.inflight) <= MaxInFlight
    /\ s.failCount <= MaxFail
    /\ roverIP' = s.roverIP
    /\ lastCommand' = s.lastCommand
    /\ failCount' = s.failCount
    /\ currentMode' = s.currentMode
    /\ localStorage' = s.localStorage
    /\ statusEl' = s.statusEl
    /\ signalEl' = s.signalEl
    /\ distColor' = s.distColor
    /\ inflight' = s.inflight
    /\ sent' = IF Observed(e, W) THEN s.sent ELSE <<>>
    /\ alerted' = IF Observed(e, W) THEN s.alerted ELSE FALSE
    /\ ev' = IF Observed(e, W)
             THEN [e EXCEPT !.after = IF <<"after">> \in W
                                      THEN <<ev.op, ev.arg, ev.mode>> ELSE <<>>,
                            !.pre = IF <<"pre">> \in W THEN e.pre ELSE 0,
                            !.mode = IF <<"mode">> \in W THEN e.mode ELSE NoVal]
             ELSE Quiet
    /\ hist' = IF <<"hist">> \in W THEN HistNext(e, s) ELSE NoHist
    /\ operatorSwitched' = IF <<"emergencyStop">> \in W
                           THEN IF e.op = "emergencyStop" THEN FALSE
                                ELSE IF e.op = "switchMode" THEN TRUE
                                ELSE operatorSwitched
                           ELSE FALSE
    /\ lastGo' = IF <<"lastGo">> \in W /\ Went(s.sent) # <<>>
                 THEN Went(s.sent)[Len(Went(s.sent))]
                 ELSE IF <<"lastGo">> \in W THEN lastGo ELSE NoVal

\* what the page can find in localStorage when it loads: nothing, or what an
\* earlier session wrote (a trimmed non-empty address, a mode passed to switchMode)
StoredPrefs ==
    [roverIP : {<<>>} \cup {<<Trim(str)>> : str \in {x \in Inputs : Trim(x) # <<>>}},
     controlMode : {NoVal} \cup (ReportedModes \ {NoVal})]

Init ==
    \E ls \in StoredPrefs :
        LET s == DOMContentLoaded(ls)
        IN  /\ roverIP = s.roverIP
            /\ lastCommand = s.lastCommand
            /\ failCount = s.failCount
            /\ currentMode = s.currentMode
            /\ localStorage = s.localStorage
            /\ statusEl = s.statusEl
            /\ signalEl = s.signalEl
            /\ distColor = s.distColor
            /\ inflight = s.inflight
            /\ sent = s.sent
            /\ alerted = s.alerted
            /\ ev = Ev("load", NoVal)
            /\ hist = NoHist
            /\ operatorSwitched = FALSE
            /\ lastGo = NoVal

\* the call the keydown listener makes for a key
KeyEvent(key) ==
    IF key = "Escape" THEN Ev("emergencyStop", NoVal)
    ELSE IF key = "m" THEN [Ev("switchMode", "manual") EXCEPT !.mode = currentMode]
    ELSE IF key = "ctrl+a"
    THEN [Ev("switchMode", "autonomous") EXCEPT !.mode = currentMode]
    ELSE IF currentMode # "manual" THEN Ev("keyIgnored", NoVal)
    ELSE IF key = "w" THEN Ev("move", "forward")
    ELSE IF key = "s" THEN Ev("move", "backward")
    ELSE IF key = "a" THEN Ev("move", "left")
    ELSE IF key = "d" THEN Ev("move", "right")
    ELSE IF key = " " THEN Ev("move", "stop")
    ELSE Ev("keyIgnored", NoVal)

\* operator: Connect button
ConnectRover(W) ==
    /\ Bounded
    /\ \E input \in Inputs :
           Install(connectRover(Cur, input),
                   [Ev("connect", NoVal) EXCEPT !.input = input], W)

\* operator: mode buttons (window.switchMode)
SwitchMode(W) ==
    /\ Bounded
    /\ \E mode \in Modes :
           Install(switchMode(Cur, mode, NoVal),
                   [Ev("switchMode", mode) EXCEPT !.mode = currentMode], W)

\* operator: direction buttons (window.move)
Move(W) ==
    /\ Bounded
    /\ \E d \in Directions : Install(move(Cur, d), Ev("move", d), W)

\* operator: speed slider (window.updateSpeed)
UpdateSpeed(W) ==
    /\ Bounded
    /\ \E v \in Speeds : Install(updateSpeed(Cur, v), Ev("updateSpeed", v), W)

\* operator: a key goes down
KeyDown(W) ==
    /\ Bounded
    /\ \E key \in Keys : Install(keydown(Cur, key), KeyEvent(key), W)

\* setInterval(fetchStatus, 1000) fires
Tick(W) ==
    /\ Bounded
    /\ Install(fetchStatus(Cur), Ev("tick", NoVal), W)

\* a /status request ends
StatusResponse(W) ==
    /\ BagIn(Cont("status", NoVal, NoVal), inflight)
    /\ \E out \in Fulfilled \cup Rejected \cup BadBody :
       \E m \in (IF out = "ok" THEN ReportedModes ELSE {NoVal}) :
       \E dist \in (IF out = "ok" THEN PollDistances(W) ELSE {NoDist}) :
           Install(fetchStatusResume(Resumed(Cont("status", NoVal, NoVal)), out,
                                     [mode |-> m, distance |-> dist]),
                   [Ev("statusResp", NoVal) EXCEPT !.out = out, !.mode = m,
                                                   !.dist = dist, !.pre = failCount],
                   W)

\* an /action request ends
ActionResponse(W) ==
    /\ BagIn(Cont("action", NoVal, NoVal), inflight)
    /\ \E out \in Fulfilled \cup Rejected :
           Install(moveResume(Resumed(Cont("action", NoVal, NoVal)), out),
                   [Ev("actionResp", NoVal) EXCEPT !.out = out, !.pre = failCount], W)

\* a /mode request ends; emergencyStop(), awaiting its switchMode, goes on right
\* after it in the same turn of the event loop
ModeResponse(W) ==
    /\ inflight # EmptyBag
    /\ \E r \in BagToSet(inflight) :
        /\ r.kind = "mode"
        /\ \E out \in Fulfilled \cup Rejected :
           LET s1 == switchModeResume(Resumed(r), r.mode, out)
               s2 == IF r.caller = "emergencyStop" THEN emergencyStopResume(s1) ELSE s1
           IN  Install(s2, [Ev("modeResp", r.mode) EXCEPT !.out = out,
                                                         !.caller = r.caller], W)

\* a /speed request ends
SpeedResponse(W) ==
    /\ BagIn(Cont("speed", NoVal, NoVal), inflight)
    /\ \E out \in Fulfilled \cup Rejected :
           Install(Resumed(Cont("speed", NoVal, NoVal)),
                   [Ev("speedResp", NoVal) EXCEPT !.out = out], W)

Next(W) ==
    \/ ConnectRover(W)
    \/ SwitchMode(W)
    \/ Move(W)
    \/ UpdateSpeed(W)
    \/ KeyDown(W)
    \/ Tick(W)
    \/ StatusResponse(W)
    \/ ActionResponse(W)
    \/ ModeResponse(W)
    \/ SpeedResponse(W)

\* what each specification observes
WatchNone == {}
WatchStop == {<<"emergencyStop">>, <<"modeResp">>, <<"statusResp", "ok">>,
              <<"mode">>}
WatchGuard == {<<"move">>}
WatchToggle == {<<"hist">>}
WatchLink == {<<"statusResp", "ok">>, <<"actionResp", "ok">>, <<"pre">>}
WatchConnect == {<<"connect">>, <<"tick">>}
WatchFail == {<<"statusResp">>, <<"actionResp">>, <<"modeResp">>, <<"speedResp">>,
              <<"mode">>}
WatchColour == {<<"statusResp", "ok">>, <<"distance">>}
WatchMode == {<<"switchMode">>, <<"modeResp", "neterr">>, <<"modeResp", "timeout">>}
WatchLast == {<<"lastGo">>}
WatchRace == {<<"switchMode">>, <<"statusResp", "ok">>, <<"mode">>, <<"after">>}

Spec == Init /\ [][Next(WatchNone)]_vars
SpecStop == Init /\ [][Next(WatchStop)]_vars
SpecGuard == Init /\ [][Next(WatchGuard)]_vars
SpecToggle == Init /\ [][Next(WatchToggle)]_vars
SpecLink == Init /\ [][Next(WatchLink)]_vars
SpecConnect == Init /\ [][Next(WatchConnect)]_vars
SpecFail == Init /\ [][Next(WatchFail)]_vars
SpecColour == Init /\ [][Next(WatchColour)]_vars
SpecMode == Init /\ [][Next(WatchMode)]_vars
SpecLast == Init /\ [][Next(WatchLast)]_vars
SpecRace == Init /\ [][Next(WatchRace)]_vars

----------------------------------------------------------------------------
(* Claims *)

ActionCont == Cont("action", NoVal, NoVal)
StatusCont == Cont("status", NoVal, NoVal)

\* the elements of a sequence
Range(seq) == {seq[i] : i \in 1..Len(seq)}

\* str is made of white space only
Blank(str) == \A i \in 1..Len(str) : str[i] \in WhiteSpace

\* res is str without its leading and trailing white space
IsTrimOf(res, str) ==
    /\ res = <<>> \/ (res[1] \notin WhiteSpace /\ res[Len(res)] \notin WhiteSpace)
    /\ \E i \in 0..Len(str) :
          /\ i + Len(res) <= Len(str)
          /\ SubSeq(str, i + 1, i + Len(res)) = res
          /\ Blank(SubSeq(str, 1, i))
          /\ Blank(SubSeq(str, i + Len(res) + 1, Len(str)))

\* C1 (as claimed): a call of emergencyStop() sets Mode to Manual, and by the
\* time it completes (its awaited switchMode has ended and its own move('stop')
\* has run) it has issued a /action?go=stop request.  Stated for the calls after
\* which the operator switches no mode, so that only timer ticks, responses and
\* other commands interleave.
C1_EmergencyStopSendsStop ==
    /\ ev.op = "emergencyStop" => currentMode = "manual"
    /\ (ev.op = "modeResp" /\ ev.caller = "emergencyStop" /\ ~operatorSwitched)
          => "stop" \in Range(Went(sent))

\* C2 (as claimed): when the /mode request of a switchMode('manual') call ends,
\* however it ends, the call issues a /action?go=stop request.
C2_ManualSwitchSendsStop ==
    (ev.op = "modeResp" /\ ev.arg = "manual") => "stop" \in Range(Went(sent))

\* C3: move(d) called while Mode is not Manual issues no request and leaves the
\* pending requests, LastCommand and the failure count as they were; and a step
\* that issues an /action request starts and ends with Mode = Manual.
C3_MoveGuard ==
    [][ /\ (ev'.op = "move" /\ currentMode # "manual")
            => /\ sent' = <<>>
               /\ UNCHANGED <<inflight, lastCommand, failCount, currentMode>>
        /\ CopiesIn(ActionCont, inflight') > CopiesIn(ActionCont, inflight)
            => currentMode = "manual" /\ currentMode' = "manual"
        /\ \A r \in Range(sent') : r.kind = "action" => r.mode = "manual"
      ]_vars

C3_Witness ==
    /\ ev.op = "move" /\ ev.arg = "forward"
    /\ currentMode = "autonomous"
    /\ lastCommand = "left"
    /\ sent = <<>>

\* the direction the n-th call of a run of move(d) sends when the first sent d
Alternate(d, n) == IF n % 2 = 1 THEN d ELSE "stop"

\* C4 (as claimed): in a run of consecutive move(d) calls in Manual, d not Stop,
\* the second call sends go=stop and leaves LastCommand = Stop, and the third
\* sends go=d again.
C4_ToggleAnyRun ==
    /\ hist.n = 2 => hist.go = <<"stop">> /\ lastCommand = "stop"
    /\ hist.n = 3 => hist.go = <<hist.d>>

\* C4 (amended): the same, for the runs whose first call found LastCommand # d
\* and so sent go=d: call n of the run sends d when n is odd and stop when n is
\* even, and LastCommand is what the latest call sent, whichever responses have
\* arrived in between.
C4_Toggle ==
    (hist.n >= 1 /\ hist.first = hist.d)
        => hist.go = <<Alternate(hist.d, hist.n)>>
           /\ lastCommand = Alternate(hist.d, hist.n)

C4_Witness ==
    /\ hist.n = 3 /\ hist.first = hist.d
    /\ hist.go = <<hist.d>>
    /\ lastCommand = hist.d
    /\ CopiesIn(ActionCont, inflight) = 2

\* C5: a successful response to a /status or /action request leaves the failure
\* count at 0 and the status at Connected, whatever they were before.
C5_SuccessResets ==
    (ev.op \in {"statusResp", "actionResp"} /\ ev.out = "ok")
        => failCount = 0 /\ statusEl = "connected"

C5_Witness ==
    /\ ev.op = "statusResp" /\ ev.out = "ok"
    /\ ev.pre > DisconnectThreshold
    /\ failCount = 0
    /\ statusEl = "connected"

\* C6: the status turns Disconnected only in a step that adds a failure and takes
\* the count above 3; a failure that leaves the count at 3 or less changes
\* neither the status nor the signal display, one that takes it above 3 sets
\* Disconnected and blanks the signal; the signal display turns blank only in the
\* step from 3 to 4; and Disconnected is shown only with a count above 3.
C6_Hysteresis ==
    [][ /\ (statusEl' = "disconnected" /\ statusEl # "disconnected")
            => failCount' = failCount + 1 /\ failCount' > DisconnectThreshold
        /\ failCount' = failCount + 1
            => IF failCount' > DisconnectThreshold
               THEN statusEl' = "disconnected" /\ signalEl' = "blank"
               ELSE UNCHANGED <<statusEl, signalEl>>
        /\ (signalEl' = "blank" /\ signalEl # "blank")
            => failCount = DisconnectThreshold
               /\ failCount' = DisconnectThreshold + 1
        /\ statusEl' = "disconnected" => failCount' > DisconnectThreshold
      ]_vars

C6_Witness ==
    /\ failCount = DisconnectThreshold + 1
    /\ statusEl = "disconnected"
    /\ signalEl = "blank"

\* C7 (as claimed): a successful poll whose mode differs from Mode sets and
\* persists Mode and issues one /mode request, a poll whose mode is absent or
\* equal issues none, and when the /mode request of a reconciliation to Manual
\* ends, its switchMode sends the implicit go=stop.
C7_Reconciliation ==
    [][ /\ (ev'.op = "statusResp" /\ ev'.mode # NoVal /\ ev'.mode # currentMode)
            => /\ currentMode' = ev'.mode
               /\ localStorage'.controlMode = ev'.mode
               /\ Len(sent') = 1
               /\ sent'[1].kind = "mode" /\ sent'[1].arg = ev'.mode
        /\ (ev'.op = "statusResp" /\ (ev'.mode = NoVal \/ ev'.mode = currentMode))
            => sent' = <<>> /\ UNCHANGED <<currentMode, localStorage>>
        /\ ( /\ ev.op = "statusResp" /\ ev.mode = "manual" /\ sent # <<>>
             /\ CopiesIn(Cont("mode", "manual", NoVal), inflight) = 1
             /\ ev'.op = "modeResp" /\ ev'.arg = "manual" /\ ev'.caller = NoVal )
            => "stop" \in Range(Went(sent'))
      ]_vars

\* C8 (as claimed): connect with an empty or blank address alerts the operator
\* and changes nothing: no request, no write to localStorage, the same status,
\* the same active address.
C8_BlankConnectChangesNothing ==
    [][ (ev'.op = "connect" /\ Blank(ev'.input))
            => /\ alerted'
               /\ sent' = <<>>
               /\ UNCHANGED <<inflight, localStorage, statusEl, roverIP>>
      ]_vars

\* C9 (as claimed): every request is issued to a non-empty address.
C9_AddressNonEmpty == \A r \in Range(sent) : r.addr # <<>>

\* C10: connect with a non-blank address stores and persists the address without
\* its surrounding white space, shows the connecting status and issues exactly
\* one request, a /status to the new address; Mode, LastCommand, the failure
\* count and the persisted mode stay.
C10_Connect ==
    [][ (ev'.op = "connect" /\ ~Blank(ev'.input))
            => /\ IsTrimOf(roverIP', ev'.input)
               /\ localStorage'.roverIP = <<roverIP'>>
               /\ statusEl' = "connecting"
               /\ ~alerted'
               /\ Len(sent') = 1
               /\ sent'[1].kind = "status" /\ sent'[1].addr = roverIP'
               /\ inflight' = inflight (+) SetToBag({StatusCont})
               /\ UNCHANGED <<currentMode, lastCommand, failCount>>
               /\ localStorage'.controlMode = localStorage.controlMode
      ]_vars

C10_Witness ==
    /\ ev.op = "connect" /\ ev.input = <<" ", "a", " ">>
    /\ roverIP = <<"a">>
    /\ localStorage.roverIP = <<roverIP>>
    /\ statusEl = "connecting"
    /\ failCount > 0

\* the /mode requests pending in a bag of continuations
ModeRequests(bag) ==
    BagCardinality([r \in {x \in BagToSet(bag) : x.kind = "mode"} |-> bag[r]])

\* C11 (as claimed): a poll that fails in any way - network error, timeout,
\* non-2xx answer, malformed body, body without its fields - adds exactly 1 to
\* the failure count, keeps the telemetry on display (the signal is blanked only
\* with the turn to Disconnected) and reconciles no mode.
C11_FailedPollCounts ==
    [][ (ev'.op = "statusResp" /\ ev'.out # "ok")
            => /\ failCount' = failCount + 1
               /\ distColor' = distColor
               /\ signalEl' = signalEl \/ failCount' > DisconnectThreshold
               /\ sent' = <<>>
               /\ UNCHANGED <<currentMode, localStorage>>
      ]_vars

\* C12 (as claimed): a request of any kind - /status, /action, /mode, /speed -
\* that ends in a network error or a timeout adds 1 to the failure count.
C12_AnyFailureCounts ==
    [][ ( /\ ev'.op \in {"statusResp", "actionResp", "modeResp", "speedResp"}
          /\ ev'.out \in Rejected )
            => failCount' = failCount + 1
      ]_vars

\* C13 (as claimed): Mode is Manual or Autonomous in every state, whatever the
\* rover reports, and right after the page load it is Autonomous exactly when
\* localStorage held Autonomous.
C13_ModeEnumerated ==
    /\ currentMode \in Modes
    /\ ev.op = "load"
           => currentMode = IF localStorage.controlMode = "autonomous"
                            THEN "autonomous" ELSE "manual"

\* C14 (as claimed): a successful poll processed while Mode is Autonomous with a
\* distance d >= 0 colours the distance display red for d < 15, orange for
\* 15 <= d < 35, green for d >= 35; a poll without distance, or one processed
\* while Mode is Manual, assigns no colour.
C14_ColourFromZero ==
    [][ (ev'.op = "statusResp" /\ ev'.out = "ok")
            => IF currentMode = "autonomous" /\ ev'.dist # NoDist /\ ev'.dist >= 0
               THEN distColor' = IF ev'.dist < 15 THEN "red"
                                 ELSE IF ev'.dist < 35 THEN "orange" ELSE "green"
               ELSE distColor' = distColor
      ]_vars

\* C14: the same for a distance d > 0; a poll with distance 0, like one without
\* distance or one processed while Mode is Manual, assigns no colour.
C14_Colour ==
    [][ (ev'.op = "statusResp" /\ ev'.out = "ok")
            => IF currentMode = "autonomous" /\ ev'.dist # NoDist /\ ev'.dist > 0
               THEN distColor' = IF ev'.dist < 15 THEN "red"
                                 ELSE IF ev'.dist < 35 THEN "orange" ELSE "green"
               ELSE distColor' = distColor
      ]_vars

C14_Witness ==
    /\ ev.op = "statusResp" /\ ev.out = "ok"
    /\ ev.dist = 15
    /\ currentMode = "autonomous"
    /\ distColor = "orange"

\* C15 (as claimed, the page load): the page load has issued a /status request.
C15_LoadPolls ==
    ev.op = "load" => \E r \in Range(sent) : r.kind = "status"

\* C15: the page load issues no /status request; a timer tick issues exactly one
\* /status request and changes nothing else; and a tick can run in every state,
\* whatever Mode, the failure count and the requests in flight are (up to the
\* bound on the requests in flight).
C15_Polling ==
    /\ [](ev.op = "load" => \A r \in Range(sent) : r.kind # "status")
    /\ [][ ev'.op = "tick"
              => /\ Len(sent') = 1 /\ sent'[1].kind = "status"
                 /\ inflight' = inflight (+) SetToBag({StatusCont})
                 /\ UNCHANGED <<roverIP, lastCommand, failCount, currentMode,
                                localStorage, statusEl, signalEl, distColor>>
         ]_vars
    /\ [](BagCardinality(inflight) < MaxInFlight => ENABLED Tick(WatchConnect))

C15_Witness ==
    /\ ev.op = "tick"
    /\ currentMode = "autonomous"
    /\ failCount > DisconnectThreshold
    /\ CopiesIn(StatusCont, inflight) = 2

\* C16: an operator's switchMode(m) sets Mode to m, persists m and issues exactly
\* one request, /mode?mode=m, with Mode already m; when a /mode request ends in
\* a network error or a timeout, Mode and the persisted mode stay and no /mode
\* request is issued again.
C16_SwitchMode ==
    [][ /\ ev'.op = "switchMode"
            => /\ currentMode' = ev'.arg
               /\ localStorage'.controlMode = ev'.arg
               /\ Len(sent') = 1
               /\ sent'[1].kind = "mode" /\ sent'[1].arg = ev'.arg
               /\ sent'[1].mode = ev'.arg
               /\ inflight' = inflight (+) SetToBag({Cont("mode", ev'.arg, NoVal)})
        /\ (ev'.op = "modeResp" /\ ev'.out \in Rejected)
            => /\ UNCHANGED <<currentMode, localStorage>>
               /\ \A r \in Range(sent') : r.kind # "mode"
               /\ ModeRequests(inflight') = ModeRequests(inflight) - 1
      ]_vars

C16_Witness ==
    /\ ev.op = "modeResp" /\ ev.out = "timeout" /\ ev.arg = "autonomous"
    /\ currentMode = "autonomous"
    /\ localStorage.controlMode = "autonomous"
    /\ ModeRequests(inflight) = 0

\* C17: once an /action request has been issued, LastCommand is the go= value of
\* the one issued last; LastCommand is one of the five directions; and LastCommand
\* changes only in a step that issues an /action request with the new value.
C17_LastCommand ==
    /\ [](lastGo # NoVal => lastCommand = lastGo)
    /\ [](lastCommand \in Directions)
    /\ [][ lastCommand' # lastCommand
              => /\ CopiesIn(ActionCont, inflight') > CopiesIn(ActionCont, inflight)
                 /\ lastGo' = lastCommand'
         ]_vars

C17_Witness ==
    /\ lastGo = "left" /\ lastCommand = "left"
    /\ currentMode = "autonomous"
    /\ CopiesIn(ActionCont, inflight) = 1

\* C18: when the answer to a /status request that was pending while the operator
\* switched from Autonomous to Manual is processed next and reports Autonomous,
\* Mode and the persisted mode are Autonomous again and /mode?mode=autonomous is
\* issued: nothing holds the older report back.
C18_StaleReportWins ==
    ( /\ ev.op = "statusResp" /\ ev.out = "ok" /\ ev.mode = "autonomous"
      /\ ev.after = <<"switchMode", "manual", "autonomous">> )
        => /\ currentMode = "autonomous"
           /\ localStorage.controlMode = "autonomous"
           /\ Len(sent) = 1
           /\ sent[1].kind = "mode" /\ sent[1].arg = "autonomous"

C18_Witness ==
    /\ ev.op = "statusResp" /\ ev.out = "ok" /\ ev.mode = "autonomous"
    /\ ev.after = <<"switchMode", "manual", "autonomous">>
    /\ currentMode = "autonomous"
    /\ CopiesIn(Cont("mode", "manual", NoVal), inflight) = 1
    /\ CopiesIn(Cont("mode", "autonomous", NoVal), inflight) = 1

\* C19: a page load that called switchMode, and every step that calls switchMode,
\* leaves the persisted mode equal to Mode; a step that finds them equal leaves
\* them equal; and a step that changes either one leaves them equal.
C19_ModePersisted ==
    /\ []((ev.op = "load" /\ sent # <<>>)
             => localStorage.controlMode = currentMode)
    /\ [][ /\ ModeRequests(inflight') > ModeRequests(inflight)
                => localStorage'.controlMode = currentMode'
           /\ localStorage.controlMode = currentMode
                => localStorage'.controlMode = currentMode'
           /\ ( currentMode' # currentMode
                \/ localStorage'.controlMode # localStorage.controlMode )
                => localStorage'.controlMode = currentMode'
         ]_vars

C19_Witness ==
    /\ currentMode = "autonomous"
    /\ localStorage.controlMode = "autonomous"
    /\ CopiesIn(Cont("mode", "autonomous", NoVal), inflight) = 1
    /\ statusEl = "connected"

====
